---- MODULE Spec2Model ----
(***************************************************************************)
(* The two IBM Cloud Functions actions of this repository, fetch_all and   *)
(* insert: one process execution of `main`, step by step, together with    *)
(* the identity (IAM) and database (Cloudant) endpoints it talks to.       *)
(*                                                                         *)
(* Conventions.                                                            *)
(*  - A string is a sequence of atoms, so that format! is concatenation    *)
(*    (\o) and "s occurs in t" is membership of an atom.                   *)
(*  - A JSON value is a tagged record (JNull, JBool, JNum, JStr, JArr,     *)
(*    JObj); an object is a function from its keys to JSON values.         *)
(*  - A text (argument, HTTP body, decoded bytes, output line) is either   *)
(*    [js |-> v], the JSON text of the value v, or [txt |-> s], a text     *)
(*    that is not JSON. White space and key order of JSON texts are not    *)
(*    modelled; which keys and values a text has is.                       *)
(*  - A Rust struct value is a function from its field names to the        *)
(*    fields' values; Option is None / Some(v); Vec is a sequence;         *)
(*    Result is Ok(v) / Err(e).                                            *)
(***************************************************************************)
EXTENDS Integers, Sequences, FiniteSets, TLC

VARIABLES
    handler,     \* which binary runs: "fetch_all" or "insert"
    args,        \* env::args(): the argument vector, a sequence of texts
    pc,          \* position of main
    stdout,      \* lines written to the primary output channel
    exitStatus,  \* <<>> while running, <<code>> once the process has ended
    i,           \* the decoded ICFRawInput
    bytes,       \* insert: the base64-decoded body
    document,    \* insert: the decoded ICFRequestBody
    iam_resp,    \* result of the request to the identity endpoint
    iam_token,   \* IAMResponse.access_token
    cdb_resp,    \* result of the request to the database endpoint
    cdb_data,    \* the decoded CDBResponse
    iamReqs,     \* requests received by the identity endpoint
    cdbReqs,     \* requests received by the database endpoint
    prev         \* what the previous invocation did, once the host re-invoked

vars == <<handler, args, pc, stdout, exitStatus, i, bytes, document, iam_resp,
          iam_token, cdb_resp, cdb_data, iamReqs, cdbReqs, prev>>

----------------------------------------------------------------------------
(* Bounds of the model *)

\* longest argument vector (program name included)
MaxArgs == 3
\* most rows in a listing response of the database
MaxRows == 2

(* Constants of the program and of its platform *)

\* exitcode::OK
OK == 0
\* exit status of a Rust process whose main thread panicked
PanicExit == 101

----------------------------------------------------------------------------
(* Values *)

Unset == [unset |-> TRUE]
Ok(v) == [ok |-> TRUE, val |-> v]
Err(e) == [ok |-> FALSE, err |-> e]
None == [some |-> FALSE]
Some(v) == [some |-> TRUE, v |-> v]

JNull == [t |-> "null"]
JBool(b) == [t |-> "boolean", b |-> b]
JNum(n) == [t |-> "number", n |-> n]
\* a number that is no i32 (outside its range), kept as its digits
JBigNum(d) == [t |-> "number", digits |-> d]
JStr(s) == [t |-> "string", s |-> s]
JArr(a) == [t |-> "array", a |-> a]
JObj(o) == [t |-> "object", o |-> o]

JsonText(v) == [js |-> v]
PlainText(s) == [txt |-> s]
IsJson(text) == "js" \in DOMAIN text

Range(s) == {s[k] : k \in DOMAIN s}
Min(S) == CHOOSE x \in S : \A y \in S : x <= y

\* the object o without key k / with key k set to v
Without(o, k) == [x \in (DOMAIN o) \ {k} |-> o[x]]
With(o, k, v) == [x \in (DOMAIN o) \cup {k} |-> IF x = k THEN v ELSE o[x]]

----------------------------------------------------------------------------
(* serde: the derived Deserialize and Serialize of the structs *)

\* the fields of each struct, in declaration order, with their types
Fields(ty) ==
    CASE ty = "ICFRawInput" ->
           << <<"iam_apikey", "String">>, <<"db_url", "String">>,
              <<"database", "String">>, <<"__ow_body", "String">>,
              <<"__ow_headers", "Value">>, <<"__ow_method", "String">>,
              <<"__ow_path", "String">>, <<"__ow_query", "String">> >>
      [] ty = "ICFRequestBody" ->
           << <<"_id", "Option<String>">>, <<"task", "String">>, <<"done", "bool">> >>
      [] ty = "IAMResponse" ->
           << <<"access_token", "String">>, <<"refresh_token", "String">>,
              <<"token_type", "String">>, <<"expires_in", "i32">>,
              <<"expiration", "i32">>, <<"scope", "String">> >>
      [] ty = "FetchAllCDBResponse" ->
           << <<"offset", "i32">>, <<"rows", "Vec<CDBRecord>">>, <<"total_rows", "i32">> >>
      [] ty = "CDBRecord" ->
           << <<"id", "String">>, <<"key", "String">>, <<"value", "CDBValue">> >>
      [] ty = "CDBValue" ->
           << <<"rev", "String">> >>
      [] ty = "InsertCDBResponse" ->
           << <<"id", "String">>, <<"ok", "bool">>, <<"rev", "String">> >>

FieldNames(ty) == {Fields(ty)[k][1] : k \in DOMAIN Fields(ty)}
FieldType(ty, n) == Fields(ty)[CHOOSE k \in DOMAIN Fields(ty) : Fields(ty)[k][1] = n][2]

InvalidType(j, what) == Err(<<"invalid type: ", j.t, ", expected ", what>>)

\* Deserialize of type ty from the JSON value j: Ok(the typed value) or
\* Err(the error's text, without its line and column).
\*  - a struct takes a JSON object: its fields are taken by name, keys that
\*    name no field are ignored, a field that is absent is an error unless
\*    it is an Option (then None); a type error of a present field is met
\*    while reading the object, an absent field after it;
\*  - a struct also takes a JSON array holding its fields in order.
RECURSIVE De(_, _)
De(j, ty) ==
    CASE ty = "String" ->
           IF j.t = "string" THEN Ok(j.s) ELSE InvalidType(j, "a string")
      [] ty = "bool" ->
           IF j.t = "boolean" THEN Ok(j.b) ELSE InvalidType(j, "a boolean")
      [] ty = "i32" ->
           IF j.t # "number" THEN InvalidType(j, "i32")
           ELSE IF "n" \notin DOMAIN j
                THEN Err(<<"invalid value: integer ", j.digits, ", expected i32">>)
                ELSE Ok(j.n)
      [] ty = "Value" -> Ok(j)
      [] ty = "Option<String>" ->
           IF j.t = "null" THEN Ok(None)
           ELSE IF j.t = "string" THEN Ok(Some(j.s))
           ELSE InvalidType(j, "a string")
      [] ty = "Vec<CDBRecord>" ->
           IF j.t # "array" THEN InvalidType(j, "a sequence")
           ELSE LET res == [k \in DOMAIN j.a |-> De(j.a[k], "CDBRecord")]
                    bad == {k \in DOMAIN j.a : ~res[k].ok}
                IN  IF bad # {} THEN res[Min(bad)]
                    ELSE Ok([k \in DOMAIN j.a |-> res[k].val])
      [] OTHER ->
           LET sch == Fields(ty) IN
           IF j.t = "object" THEN
               LET has(k) == sch[k][1] \in DOMAIN j.o
                   res == [k \in DOMAIN sch |->
                             IF has(k) THEN De(j.o[sch[k][1]], sch[k][2])
                             ELSE IF sch[k][2] = "Option<String>" THEN Ok(None)
                             ELSE Err(<<"missing field ", sch[k][1]>>)]
                   bad == {k \in DOMAIN sch : has(k) /\ ~res[k].ok}
                   missing == {k \in DOMAIN sch : ~has(k) /\ ~res[k].ok}
               IN  IF bad # {} THEN res[Min(bad)]
                   ELSE IF missing # {} THEN res[Min(missing)]
                   ELSE Ok([n \in FieldNames(ty) |->
                              res[CHOOSE k \in DOMAIN sch : sch[k][1] = n].val])
           ELSE IF j.t = "array" THEN
               LET res == [k \in DOMAIN sch |->
                             IF k \in DOMAIN j.a THEN De(j.a[k], sch[k][2])
                             ELSE Err(<<"invalid length, expected struct ", ty>>)]
                   bad == {k \in DOMAIN sch : ~res[k].ok}
               IN  IF bad # {} THEN res[Min(bad)]
                   ELSE IF Len(j.a) > Len(sch) THEN Err(<<"trailing characters">>)
                   ELSE Ok([n \in FieldNames(ty) |->
                              res[CHOOSE k \in DOMAIN sch : sch[k][1] = n].val])
           ELSE Err(<<"invalid type: ", j.t, ", expected struct ", ty>>)

\* Serialize of the value v of type ty, as serde_json::to_value gives it:
\* every field of a struct is written, a None as null.
RECURSIVE Ser(_, _)
Ser(v, ty) ==
    CASE ty = "String" -> JStr(v)
      [] ty = "bool" -> JBool(v)
      [] ty = "i32" -> JNum(v)
      [] ty = "Value" -> v
      [] ty = "Option<String>" -> IF v.some THEN JStr(v.v) ELSE JNull
      [] ty = "Vec<CDBRecord>" -> JArr([k \in DOMAIN v |-> Ser(v[k], "CDBRecord")])
      [] OTHER -> JObj([n \in FieldNames(ty) |-> Ser(v[n], FieldType(ty, n))])

\* serde_json::from_str / from_slice / Response::into_json: parse the text,
\* then deserialize
FromText(text, ty) ==
    IF IsJson(text) THEN De(text.js, ty)
    ELSE IF text.txt = <<>> THEN Err(<<"EOF while parsing a value">>)
    ELSE Err(<<"expected value">>)

\* serde_json::to_string
JsonToString(v) == JsonText(v)

----------------------------------------------------------------------------
(* base64::decode, on the body strings of the model *)

\* the base64 strings of the model and the bytes each stands for
Base64Table ==
    ("eyJuYW1lIjoiSmFuZSJ9" :>
        JsonText(JObj("name" :> JStr(<<"Jane">>))))
    @@ ("eyJ0YXNrIjoiYnV5IG1pbGsiLCJkb25lIjpmYWxzZX0=" :>
        JsonText(JObj(("task" :> JStr(<<"buy milk">>)) @@ ("done" :> JBool(FALSE)))))
    @@ ("eyJfaWQiOiJkb2MxIiwidGFzayI6ImJ1eSBtaWxrIiwiZG9uZSI6dHJ1ZX0=" :>
        JsonText(JObj(("_id" :> JStr(<<"doc1">>)) @@ ("task" :> JStr(<<"buy milk">>))
                      @@ ("done" :> JBool(TRUE)))))
    @@ ("eyJfaWQiOm51bGwsInRhc2siOiJidXkgbWlsayIsImRvbmUiOmZhbHNlfQ==" :>
        JsonText(JObj(("_id" :> JNull) @@ ("task" :> JStr(<<"buy milk">>))
                      @@ ("done" :> JBool(FALSE)))))
    @@ ("eyJ0YXNrIjoiYnV5IG1pbGsiLCJkb25lIjoibm8ifQ==" :>
        JsonText(JObj(("task" :> JStr(<<"buy milk">>)) @@ ("done" :> JStr(<<"no">>)))))
    @@ ("eyJ0YXNrIjoiYnV5IG1pbGsiLCJkb25lIjpmYWxzZSwicHJpb3JpdHkiOjF9" :>
        JsonText(JObj(("task" :> JStr(<<"buy milk">>)) @@ ("done" :> JBool(FALSE))
                      @@ ("priority" :> JNum(1)))))
    @@ ("aGVsbG8=" :> PlainText(<<"hello">>))

\* base64::decode(s): the empty string decodes to no bytes, a string of the
\* table to its bytes, any other string is not base64
Base64Decode(s) ==
    IF s = <<>> THEN Ok(PlainText(<<>>))
    ELSE IF Len(s) = 1 /\ s[1] \in DOMAIN Base64Table THEN Ok(Base64Table[s[1]])
    ELSE Err(<<"Invalid byte 33, offset 0.">>)

----------------------------------------------------------------------------
(* The inputs of an invocation *)

ApiKeys == {"KEY_A", "KEY_B"}
BodyStrings == {<<>>, <<"!!!">>} \cup {<<b>> : b \in DOMAIN Base64Table}
RawInputFields == FieldNames("ICFRawInput")

\* a well-formed raw HTTP payload, as the example of the source gives it
RawInput(key, body) ==
    ("iam_apikey" :> JStr(<<key>>))
    @@ ("db_url" :> JStr(<<"https://account.cloudant.example">>))
    @@ ("database" :> JStr(<<"todos">>))
    @@ ("__ow_body" :> JStr(body))
    @@ ("__ow_headers" :> JObj("accept" :> JStr(<<"*/*">>)))
    @@ ("__ow_method" :> JStr(<<"post">>))
    @@ ("__ow_path" :> JStr(<<>>))
    @@ ("__ow_query" :> JStr(<<"name=Jane">>))

DefaultBody == <<"eyJ0YXNrIjoiYnV5IG1pbGsiLCJkb25lIjpmYWxzZX0=">>

\* the JSON objects given as input: the well-formed ones, and a well-formed
\* one with a field removed, with a field of another type, with a custom
\* parameter added
InputObjects ==
    {RawInput(key, body) : key \in ApiKeys, body \in BodyStrings}
    \cup {Without(RawInput("KEY_A", DefaultBody), f) : f \in RawInputFields}
    \cup {With(RawInput("KEY_A", DefaultBody), f, JNum(0)) : f \in RawInputFields}
    \cup {With(RawInput("KEY_A", DefaultBody), "custom_param", JStr(<<"value">>))}

InputTexts ==
    {PlainText(<<"not json">>), PlainText(<<>>), JsonText(JNum(1))}
    \cup {JsonText(JObj(o)) : o \in InputObjects}

\* the argument vectors: the program's name, then possibly the input, then
\* possibly further arguments
ArgVectors(h) ==
    {<<PlainText(<<h>>)>>}
    \cup {<<PlainText(<<h>>), t>> \o [k \in 1..n |-> PlainText(<<"extra">>)] :
            t \in InputTexts, n \in 0..(MaxArgs - 2)}

----------------------------------------------------------------------------
(* The answers of the two endpoints *)

Tokens == {"TOKEN_A", "TOKEN_B"}
TransportKinds == {"Dns Failed", "Connection Failed"}
StatusCodes == {"400", "503"}
Digits == <<"1", "2", "3", "4", "5", "6", "7", "8", "9">>

\* ureq::Error of a request to url: a transport failure, or an HTTP status
\* that is no success
UreqErrors(url) ==
    {[kind |-> "Transport", what |-> k, url |-> url] : k \in TransportKinds}
    \cup {[kind |-> "Status", code |-> c, url |-> url] : c \in StatusCodes}

\* Display of a ureq::Error
ErrDisplay(e) ==
    IF e.kind = "Status" THEN e.url \o <<": status code ", e.code>>
    ELSE e.url \o <<": ", e.what>>

Response(body) == [status |-> "200", body |-> body]

IAMResponseExample(token) ==
    ("access_token" :> JStr(<<token>>))
    @@ ("refresh_token" :> JStr(<<"not_supported">>))
    @@ ("token_type" :> JStr(<<"Bearer">>))
    @@ ("expires_in" :> JNum(3600))
    @@ ("expiration" :> JNum(1616239535))
    @@ ("scope" :> JStr(<<"ibm openid">>))

IAMBodies ==
    {JsonText(JObj(IAMResponseExample(t))) : t \in Tokens}
    \cup {JsonText(JObj(Without(IAMResponseExample("TOKEN_A"), "access_token"))),
          JsonText(JObj(With(IAMResponseExample("TOKEN_A"), "expiration", JBigNum("2147483648")))),
          PlainText(<<"<html>">>)}

CDBRow(k, withDoc) ==
    LET id == <<"doc", Digits[k]>>
        row == ("id" :> JStr(id)) @@ ("key" :> JStr(id))
               @@ ("value" :> JObj("rev" :> JStr(<<"1-967a">>)))
    IN  JObj(IF withDoc
             THEN With(row, "doc", JObj(("_id" :> JStr(id)) @@ ("_rev" :> JStr(<<"1-967a">>))))
             ELSE row)

CDBListing(n, withDoc) ==
    ("offset" :> JNum(0))
    @@ ("rows" :> JArr([k \in 1..n |-> CDBRow(k, withDoc)]))
    @@ ("total_rows" :> JNum(n))

CDBInserted ==
    ("id" :> JStr(<<"doc1">>)) @@ ("ok" :> JBool(TRUE)) @@ ("rev" :> JStr(<<"1-967a">>))

\* the bodies the database answers with to GET {db}/_all_docs and POST {db}
CDBBodies(h) ==
    IF h = "fetch_all"
    THEN {JsonText(JObj(CDBListing(n, FALSE))) : n \in 0..MaxRows}
         \cup {JsonText(JObj(CDBListing(n, TRUE))) : n \in 1..MaxRows}
         \cup {JsonText(JObj(Without(CDBListing(1, FALSE), "total_rows"))),
               PlainText(<<"<html>">>)}
    ELSE {JsonText(JObj(CDBInserted)),
          JsonText(JObj(With(CDBInserted, "warning", JStr(<<"w">>)))),
          JsonText(JObj(Without(CDBInserted, "rev"))),
          PlainText(<<"<html>">>)}

----------------------------------------------------------------------------
(* What main writes *)

\* the line println!("{:?}", &args) writes: the argument vector, in full
DebugLine(v) == [debug |-> v]

\* ErrorEnvelope with the failure told by the status line as well
ErrorEnvelopeStatus500(msg) ==
    JObj(("statusCode" :> JStr(<<"500 Internal Server Error">>))
         @@ ("body" :> JObj(("err" :> JBool(TRUE)) @@ ("msg" :> JStr(msg)))))

\* json!({"statusCode": "200 OK", "body": {"err": true, "msg": msg}})
ErrorEnvelope(msg) ==
    JObj(("statusCode" :> JStr(<<"200 OK">>))
         @@ ("body" :> JObj(("err" :> JBool(TRUE)) @@ ("msg" :> JStr(msg)))))

\* json!({"statusCode": "200 OK", "body": json!({"err": false, "msg": msg, key: data})})
SuccessEnvelope(msg, key, data) ==
    JObj(("statusCode" :> JStr(<<"200 OK">>))
         @@ ("body" :> JObj(("err" :> JBool(FALSE)) @@ ("msg" :> JStr(msg))
                            @@ (key :> data))))

\* the messages of the failures, one per place of main that reports one
ParseFailureMsg(err) == <<"Failure parsing raw HTTP request: ">> \o err
\* Base64FailureMsg with the text of the arm below it
Base64FailureMsgCopied(err) == <<"Failure deserializing decoded bytes: ">> \o err
Base64FailureMsg(err) == <<"Failure decoding base64 body: ">> \o err
BodyFailureMsg(err) == <<"Failure deserializing decoded bytes: ">> \o err
\* IamRequestFailureMsg with the error's text added, as the other messages have it
IamRequestFailureMsgWithCause(err) == <<"Failure requesting IAM token: ">> \o ErrDisplay(err)
IamRequestFailureMsg(err) == <<"Failure requesting IAM token">>
IamDecodeFailureMsg(err) == <<"Failure deserializing IAM response: ">> \o err
CdbRequestFailureMsg(err) == <<"Failure querying Cloudant: ">> \o ErrDisplay(err)
CdbDecodeFailureMsg(err) == <<"Failure deserializing IAM response: ">> \o err

CompleteMsg(h) ==
    IF h = "fetch_all" THEN <<"fetch_all execution complete!">>
    ELSE <<"insert execution complete!">>
\* ResultKey with the key of fetch_all in both binaries
ResultKeyCopied(h) == "data"
ResultKey(h) == IF h = "fetch_all" THEN "data" ELSE "inserted_record"
CDBResponseType(h) == IF h = "fetch_all" THEN "FetchAllCDBResponse" ELSE "InsertCDBResponse"

\* println!("{}", sj::to_string(&o).unwrap()); process::exit(exitcode::OK)
EmitAndExit(o, at) ==
    /\ stdout' = Append(stdout, JsonToString(o))
    /\ exitStatus' = <<OK>>
    /\ pc' = at

Continue(at) ==
    /\ pc' = at
    /\ UNCHANGED <<stdout, exitStatus>>

----------------------------------------------------------------------------
(* The requests main sends *)

IamUrl == <<"https://iam.cloud.ibm.com/identity/token">>

IamRequest(apikey) ==
    [method |-> "POST", url |-> IamUrl,
     headers |-> {<<"Content-Type", <<"application/x-www-form-urlencoded">>>>,
                  <<"Accept", <<"application/json">>>>},
     form |-> {<<"apikey", apikey>>,
               <<"grant_type", <<"urn:ibm:params:oauth:grant-type:apikey">>>>}]

CdbUri(h, in) ==
    IF h = "fetch_all" THEN in["db_url"] \o <<"/">> \o in["database"] \o <<"/_all_docs">>
    ELSE in["db_url"] \o <<"/">> \o in["database"]

Bearer(token) == <<"Bearer ">> \o token

\* CdbRequest authorized with the API key where the code has the token
CdbRequestWithApiKey(h, in, token, doc) ==
    [method |-> IF h = "fetch_all" THEN "GET" ELSE "POST",
     url |-> CdbUri(h, in),
     headers |-> {<<"Authorization", Bearer(in["iam_apikey"])>>},
     body |-> IF h = "fetch_all" THEN PlainText(<<>>)
              ELSE JsonToString(Ser(doc, "ICFRequestBody"))]

CdbRequest(h, in, token, doc) ==
    IF h = "fetch_all"
    THEN [method |-> "GET", url |-> CdbUri(h, in),
          headers |-> {<<"Authorization", Bearer(token)>>},
          body |-> PlainText(<<>>)]
    ELSE [method |-> "POST", url |-> CdbUri(h, in),
          headers |-> {<<"Authorization", Bearer(token)>>,
                       <<"Accept", <<"application/json">>>>,
                       <<"Content-Type", <<"application/json">>>>},
          body |-> JsonToString(Ser(doc, "ICFRequestBody"))]

----------------------------------------------------------------------------
(* main, step by step *)

Handlers == {"fetch_all", "insert"}

Fresh(h, a) ==
    /\ handler = h
    /\ args = a
    /\ pc = "print_args"
    /\ stdout = <<>>
    /\ exitStatus = <<>>
    /\ i = Unset
    /\ bytes = Unset
    /\ document = Unset
    /\ iam_resp = Unset
    /\ iam_token = Unset
    /\ cdb_resp = Unset
    /\ cdb_data = Unset
    /\ iamReqs = <<>>
    /\ cdbReqs = <<>>

Init ==
    /\ \E h \in Handlers : \E a \in ArgVectors(h) : Fresh(h, a)
    /\ prev = Unset

\* let args = env::args().collect(); println!("{:?}", &args);
PrintArgs ==
    /\ pc = "print_args"
    /\ stdout' = Append(stdout, DebugLine(args))
    /\ pc' = "parse_input"
    /\ UNCHANGED <<handler, args, exitStatus, i, bytes, document, iam_resp, iam_token,
                   cdb_resp, cdb_data, iamReqs, cdbReqs, prev>>

\* let i: ICFRawInput = match sj::from_str(&args[1]) {...}
\* args[1] of the source is the second element of args; without it the
\* index panics.
ParseInput ==
    /\ pc = "parse_input"
    /\ IF Len(args) < 2
       THEN /\ pc' = "panic"
            /\ exitStatus' = <<PanicExit>>
            /\ UNCHANGED <<stdout, i>>
       ELSE LET res == FromText(args[2], "ICFRawInput") IN
            IF res.ok
            THEN /\ i' = res.val
                 /\ Continue(IF handler = "insert" THEN "decode_body" ELSE "request_token")
            ELSE /\ EmitAndExit(ErrorEnvelope(ParseFailureMsg(res.err)), "exit_parse")
                 /\ UNCHANGED i
    /\ UNCHANGED <<handler, args, bytes, document, iam_resp, iam_token, cdb_resp,
                   cdb_data, iamReqs, cdbReqs, prev>>

\* insert: let bytes = match decode(i.__ow_body) {...}
DecodeBody ==
    /\ pc = "decode_body"
    /\ LET res == Base64Decode(i["__ow_body"]) IN
       IF res.ok
       THEN /\ bytes' = res.val
            /\ Continue("deserialize_body")
       ELSE /\ EmitAndExit(ErrorEnvelope(Base64FailureMsg(res.err)), "exit_base64")
            /\ UNCHANGED bytes
    /\ UNCHANGED <<handler, args, i, document, iam_resp, iam_token, cdb_resp, cdb_data,
                   iamReqs, cdbReqs, prev>>

\* insert: let document: ICFRequestBody = match sj::from_slice(&bytes) {...}
DeserializeBody ==
    /\ pc = "deserialize_body"
    /\ LET res == FromText(bytes, "ICFRequestBody") IN
       IF res.ok
       THEN /\ document' = res.val
            /\ Continue("request_token")
       ELSE /\ EmitAndExit(ErrorEnvelope(BodyFailureMsg(res.err)), "exit_body")
            /\ UNCHANGED document
    /\ UNCHANGED <<handler, args, i, bytes, iam_resp, iam_token, cdb_resp, cdb_data,
                   iamReqs, cdbReqs, prev>>

\* RequestToken with one more attempt after a failed request
RequestTokenRetryOnce ==
    /\ pc = "request_token"
    /\ iamReqs' = Append(iamReqs, IamRequest(i["iam_apikey"]))
    /\ \E res \in {Ok(Response(b)) : b \in IAMBodies} \cup {Err(e) : e \in UreqErrors(IamUrl)} :
          /\ iam_resp' = res
          /\ IF res.ok
             THEN Continue("deserialize_iam")
             ELSE IF iamReqs = <<>>
             THEN Continue("request_token")
             ELSE EmitAndExit(ErrorEnvelope(IamRequestFailureMsg(res.err)), "exit_iam_request")
    /\ UNCHANGED <<handler, args, i, bytes, document, iam_token, cdb_resp, cdb_data,
                   cdbReqs, prev>>

\* let iam_resp = match ureq::post(...).send_form(...) {...}
\* The call blocks until the endpoint has answered or the request has failed.
RequestToken ==
    /\ pc = "request_token"
    /\ iamReqs' = Append(iamReqs, IamRequest(i["iam_apikey"]))
    /\ \E res \in {Ok(Response(b)) : b \in IAMBodies} \cup {Err(e) : e \in UreqErrors(IamUrl)} :
          /\ iam_resp' = res
          /\ IF res.ok
             THEN Continue("deserialize_iam")
             ELSE EmitAndExit(ErrorEnvelope(IamRequestFailureMsg(res.err)), "exit_iam_request")
    /\ UNCHANGED <<handler, args, i, bytes, document, iam_token, cdb_resp, cdb_data,
                   cdbReqs, prev>>

\* DeserializeIAM taking the refresh token for the access token
DeserializeIAMRefreshToken ==
    /\ pc = "deserialize_iam"
    /\ LET res == FromText(iam_resp.val.body, "IAMResponse") IN
       IF res.ok
       THEN /\ iam_token' = res.val["refresh_token"]
            /\ Continue("query_cloudant")
       ELSE /\ EmitAndExit(ErrorEnvelope(IamDecodeFailureMsg(res.err)), "exit_iam_decode")
            /\ UNCHANGED iam_token
    /\ UNCHANGED <<handler, args, i, bytes, document, iam_resp, cdb_resp, cdb_data,
                   iamReqs, cdbReqs, prev>>

\* DeserializeIAM with an error arm that goes on with an empty token
\* (Err(_) => String::new()) where the code reports and exits
DeserializeIAMDefaultToken ==
    /\ pc = "deserialize_iam"
    /\ LET res == FromText(iam_resp.val.body, "IAMResponse") IN
       iam_token' = IF res.ok THEN res.val["access_token"] ELSE <<>>
    /\ Continue("query_cloudant")
    /\ UNCHANGED <<handler, args, i, bytes, document, iam_resp, cdb_resp, cdb_data,
                   iamReqs, cdbReqs, prev>>

\* let iam_token = match iam_resp.into_json::<IAMResponse>() {...}
DeserializeIAM ==
    /\ pc = "deserialize_iam"
    /\ LET res == FromText(iam_resp.val.body, "IAMResponse") IN
       IF res.ok
       THEN /\ iam_token' = res.val["access_token"]
            /\ Continue("query_cloudant")
       ELSE /\ EmitAndExit(ErrorEnvelope(IamDecodeFailureMsg(res.err)), "exit_iam_decode")
            /\ UNCHANGED iam_token
    /\ UNCHANGED <<handler, args, i, bytes, document, iam_resp, cdb_resp, cdb_data,
                   iamReqs, cdbReqs, prev>>

\* QueryCloudant with a failure message that tells the request in full, its
\* Authorization header included
QueryCloudantTellsRequest ==
    /\ pc = "query_cloudant"
    /\ cdbReqs' = Append(cdbReqs, CdbRequest(handler, i, iam_token, document))
    /\ \E res \in {Ok(Response(b)) : b \in CDBBodies(handler)}
                  \cup {Err(e) : e \in UreqErrors(CdbUri(handler, i))} :
          /\ cdb_resp' = res
          /\ IF res.ok
             THEN Continue("deserialize_cloudant")
             ELSE EmitAndExit(ErrorEnvelope(CdbRequestFailureMsg(res.err)
                                            \o <<" with ">> \o Bearer(iam_token)),
                              "exit_cdb_request")
    /\ UNCHANGED <<handler, args, i, bytes, document, iam_resp, iam_token, cdb_data,
                   iamReqs, prev>>

\* let cdb_resp = match ureq::get(&uri).set("Authorization", &bearer).call() {...}
\* insert: ureq::post(&uri)...send_json(json!(document))
QueryCloudant ==
    /\ pc = "query_cloudant"
    /\ cdbReqs' = Append(cdbReqs, CdbRequest(handler, i, iam_token, document))
    /\ \E res \in {Ok(Response(b)) : b \in CDBBodies(handler)}
                  \cup {Err(e) : e \in UreqErrors(CdbUri(handler, i))} :
          /\ cdb_resp' = res
          /\ IF res.ok
             THEN Continue("deserialize_cloudant")
             ELSE EmitAndExit(ErrorEnvelope(CdbRequestFailureMsg(res.err)), "exit_cdb_request")
    /\ UNCHANGED <<handler, args, i, bytes, document, iam_resp, iam_token, cdb_data,
                   iamReqs, prev>>

\* let cdb_data = match cdb_resp.into_json::<CDBResponse>() {...}
DeserializeCloudant ==
    /\ pc = "deserialize_cloudant"
    /\ LET res == FromText(cdb_resp.val.body, CDBResponseType(handler)) IN
       IF res.ok
       THEN /\ cdb_data' = res.val
            /\ Continue("build_output")
       ELSE /\ EmitAndExit(ErrorEnvelope(CdbDecodeFailureMsg(res.err)), "exit_cdb_decode")
            /\ UNCHANGED cdb_data
    /\ UNCHANGED <<handler, args, i, bytes, document, iam_resp, iam_token, cdb_resp,
                   iamReqs, cdbReqs, prev>>

\* the orders a sequence can be put in
Orderings(q) ==
    {[k \in DOMAIN q |-> q[f[k]]] :
        f \in {g \in [DOMAIN q -> DOMAIN q] : \A a, b \in DOMAIN q : g[a] = g[b] => a = b}}

\* BuildOutput with the rows written in whatever order a hash map gives them
BuildOutputAnyRowOrder ==
    /\ pc = "build_output"
    /\ \E d \in (IF handler = "fetch_all"
                  THEN {[cdb_data EXCEPT !["rows"] = r] : r \in Orderings(cdb_data["rows"])}
                  ELSE {cdb_data}) :
          EmitAndExit(SuccessEnvelope(CompleteMsg(handler), ResultKey(handler),
                                      Ser(d, CDBResponseType(handler))),
                      "exit_success")
    /\ UNCHANGED <<handler, args, i, bytes, document, iam_resp, iam_token, cdb_resp,
                   cdb_data, iamReqs, cdbReqs, prev>>

\* BuildOutput with the rows alone as the result ("data": cdb_data.rows)
BuildOutputRowsOnly ==
    /\ pc = "build_output"
    /\ EmitAndExit(SuccessEnvelope(CompleteMsg(handler), ResultKey(handler),
                                   IF handler = "fetch_all"
                                   THEN Ser(cdb_data["rows"], "Vec<CDBRecord>")
                                   ELSE Ser(cdb_data, CDBResponseType(handler))),
                   "exit_success")
    /\ UNCHANGED <<handler, args, i, bytes, document, iam_resp, iam_token, cdb_resp,
                   cdb_data, iamReqs, cdbReqs, prev>>

\* let o = json!({...}); println!(...); process::exit(exitcode::OK)
BuildOutput ==
    /\ pc = "build_output"
    /\ EmitAndExit(SuccessEnvelope(CompleteMsg(handler), ResultKey(handler),
                                   Ser(cdb_data, CDBResponseType(handler))),
                   "exit_success")
    /\ UNCHANGED <<handler, args, i, bytes, document, iam_resp, iam_token, cdb_resp,
                   cdb_data, iamReqs, cdbReqs, prev>>

Next ==
    \/ PrintArgs
    \/ ParseInput
    \/ DecodeBody
    \/ DeserializeBody
    \/ RequestToken
    \/ DeserializeIAM
    \/ QueryCloudant
    \/ DeserializeCloudant
    \/ BuildOutput

Spec == Init /\ [][Next]_vars

Terminated == exitStatus # <<>>

----------------------------------------------------------------------------
(* A second invocation: the host runs the same action once more, as a new  *)
(* process, with the same input or with an input that differs in the API   *)
(* key alone. What the first one did is kept in prev, to compare the two.  *)

WithApiKey(a, key) ==
    IF /\ Len(a) >= 2
       /\ IsJson(a[2])
       /\ a[2].js.t = "object"
       /\ "iam_apikey" \in DOMAIN a[2].js.o
       /\ a[2].js.o["iam_apikey"].t = "string"
    THEN [a EXCEPT ![2] = JsonText(JObj(With(a[2].js.o, "iam_apikey", JStr(<<key>>))))]
    ELSE a

Reinvoke ==
    /\ Terminated
    /\ prev = Unset
    /\ prev' = [args |-> args, pc |-> pc, stdout |-> stdout, exitStatus |-> exitStatus,
                iam_resp |-> iam_resp, cdb_resp |-> cdb_resp,
                iamReqs |-> iamReqs, cdbReqs |-> cdbReqs]
    /\ args' \in {args} \cup {WithApiKey(args, k) : k \in ApiKeys}
    /\ pc' = "print_args"
    /\ stdout' = <<>>
    /\ exitStatus' = <<>>
    /\ i' = Unset
    /\ bytes' = Unset
    /\ document' = Unset
    /\ iam_resp' = Unset
    /\ iam_token' = Unset
    /\ cdb_resp' = Unset
    /\ cdb_data' = Unset
    /\ iamReqs' = <<>>
    /\ cdbReqs' = <<>>
    /\ UNCHANGED handler

NextPair ==
    \/ Next
    \/ Reinvoke

SpecPair == Init /\ [][NextPair]_vars

----------------------------------------------------------------------------
(* Reading a run: its output, and which stage failed *)

IsOk(r) == "ok" \in DOMAIN r /\ r.ok
IsErr(r) == "ok" \in DOMAIN r /\ ~r.ok
HasPrefix(s, p) == Len(s) >= Len(p) /\ SubSeq(s, 1, Len(p)) = p

\* the envelopes among the lines of an output
EnvelopeLines(out) == {k \in DOMAIN out : IsJson(out[k])}
HasEnvelope(out) == out # <<>> /\ IsJson(out[Len(out)])
\* the body and the message of the envelope an output ends with
BodyOf(out) == out[Len(out)].js.o["body"].o
MsgOf(out) == BodyOf(out)["msg"].s

\* the atoms of the strings (and keys) of a JSON value, of a text, of a line
RECURSIVE JsonAtoms(_)
JsonAtoms(j) ==
    CASE j.t = "string" -> Range(j.s)
      [] j.t = "array" -> UNION {JsonAtoms(j.a[k]) : k \in DOMAIN j.a}
      [] j.t = "object" -> (DOMAIN j.o) \cup UNION {JsonAtoms(j.o[k]) : k \in DOMAIN j.o}
      [] OTHER -> {}
TextAtoms(text) == IF IsJson(text) THEN JsonAtoms(text.js) ELSE Range(text.txt)
LineAtoms(line) ==
    IF "debug" \in DOMAIN line
    THEN UNION {TextAtoms(line.debug[k]) : k \in DOMAIN line.debug}
    ELSE TextAtoms(line)
OutputAtoms(out) == UNION {LineAtoms(out[k]) : k \in DOMAIN out}

\* the input is missing, or malformed: no JSON, no object, or an object
\* without one of the fields, or with one of them of another type
StringFields == RawInputFields \ {"__ow_headers"}
InputMissing == Len(args) < 2
InputMalformed ==
    /\ Len(args) >= 2
    /\ \/ ~IsJson(args[2])
       \/ args[2].js.t # "object"
       \/ \E f \in RawInputFields : f \notin DOMAIN args[2].js.o
       \/ \E f \in StringFields \cap DOMAIN args[2].js.o : args[2].js.o[f].t # "string"

\* the stages that failed in the run so far, read off what main holds
TokenRequestFailed == IsErr(iam_resp)
TokenDecodeFailed == IsOk(iam_resp) /\ ~FromText(iam_resp.val.body, "IAMResponse").ok
DbRequestFailed == IsErr(cdb_resp)
DbDecodeFailed == IsOk(cdb_resp) /\ ~FromText(cdb_resp.val.body, CDBResponseType(handler)).ok
BodyDecodeFailed ==
    /\ handler = "insert"
    /\ i # Unset
    /\ \/ ~Base64Decode(i["__ow_body"]).ok
       \/ ~FromText(Base64Decode(i["__ow_body"]).val, "ICFRequestBody").ok
SomeStageFailed ==
    \/ InputMalformed
    \/ BodyDecodeFailed
    \/ TokenRequestFailed
    \/ TokenDecodeFailed
    \/ DbRequestFailed
    \/ DbDecodeFailed
AllStagesSucceeded == cdb_data # Unset
\* main holds the bearer token
TokenObtained == IsOk(iam_resp) /\ ~TokenDecodeFailed /\ pc # "deserialize_iam"

----------------------------------------------------------------------------
(* C1 -- every invocation ends with the success exit code                  *)

\* C1: whatever the argument vector and the outcomes of the stages, a process
\* that has ended has ended with exitcode::OK.
C1_AlwaysExitsOK == Terminated => exitStatus = <<OK>>

(* C2 -- malformed or missing input is a reported decode failure           *)

\* C2: when the positional input argument is malformed or missing, the run
\* ends with the success status, its output ends with an envelope that has
\* err = true and the message of the decode stage, and no request has been
\* sent to either endpoint.
C2_BadInputIsReported ==
    (Terminated /\ (InputMissing \/ InputMalformed)) =>
        /\ exitStatus = <<OK>>
        /\ HasEnvelope(stdout)
        /\ BodyOf(stdout)["err"] = JBool(TRUE)
        /\ HasPrefix(MsgOf(stdout), <<"Failure parsing raw HTTP request: ">>)
        /\ iamReqs = <<>>
        /\ cdbReqs = <<>>

\* the half of C2 the code keeps: an input that is there but malformed
C2_MalformedInputIsReported ==
    (Terminated /\ InputMalformed) =>
        /\ exitStatus = <<OK>>
        /\ HasEnvelope(stdout)
        /\ BodyOf(stdout)["err"] = JBool(TRUE)
        /\ HasPrefix(MsgOf(stdout), <<"Failure parsing raw HTTP request: ">>)
        /\ iamReqs = <<>>
        /\ cdbReqs = <<>>

(* C3 -- the envelope is the only output                                   *)

\* C3: at termination the output is exactly one line, and that line is the
\* envelope. (Stated of the runs that end with exitcode::OK, so that what
\* refutes it is the output of a run that went as intended.)
C3_OutputIsOneEnvelope ==
    (Terminated /\ exitStatus = <<OK>>) => (Len(stdout) = 1 /\ IsJson(stdout[1]))

\* what the code keeps of C3: a run that did not panic wrote exactly one
\* envelope, as the last line
C3_OneEnvelopeLast ==
    (Terminated /\ exitStatus = <<OK>>) => EnvelopeLines(stdout) = {Len(stdout)}

(* C4 -- the status line is constant, err alone tells the outcome          *)

\* C4: every envelope written has statusCode "200 OK"; its err is true
\* exactly when some stage failed, false exactly when all stages succeeded.
C4_StatusLineAndErrFlag ==
    \A k \in EnvelopeLines(stdout) :
        LET env == stdout[k].js.o IN
        /\ env["statusCode"] = JStr(<<"200 OK">>)
        /\ (env["body"].o["err"] = JBool(TRUE)) <=> SomeStageFailed
        /\ (env["body"].o["err"] = JBool(FALSE)) <=> AllStagesSucceeded

\* a run whose database request failed has written its envelope
C4_Witness ==
    /\ DbRequestFailed
    /\ HasEnvelope(stdout)
    /\ BodyOf(stdout)["err"] = JBool(TRUE)

(* C5 -- a failed token exchange stops the pipeline                        *)

\* C5: once the request to the identity endpoint has failed, or its
\* response cannot be decoded, no request is sent to the database endpoint,
\* and the run ends with an envelope that has err = true and the message of
\* the token stage that failed.
C5_TokenFailureStopsPipeline ==
    (TokenRequestFailed \/ TokenDecodeFailed) =>
        /\ cdbReqs = <<>>
        /\ cdb_resp = Unset
        /\ Terminated =>
             /\ HasEnvelope(stdout)
             /\ BodyOf(stdout)["err"] = JBool(TRUE)
             /\ TokenRequestFailed => MsgOf(stdout) = <<"Failure requesting IAM token">>
             /\ TokenDecodeFailed =>
                  HasPrefix(MsgOf(stdout), <<"Failure deserializing IAM response: ">>)

\* a run that has ended on an identity response it could not decode
C5_Witness ==
    /\ Terminated
    /\ TokenDecodeFailed
    /\ Len(iamReqs) = 1

(* C6 -- a failed database call is reported, the token is never written    *)

\* C6: when the token exchange succeeded and the database request failed,
\* the envelope has err = true and the message of the database stage; and
\* on every path, nothing of the bearer token is in the output.
C6_DbFailureReportedTokenKept ==
    /\ (Terminated /\ TokenObtained /\ DbRequestFailed) =>
          /\ HasEnvelope(stdout)
          /\ BodyOf(stdout)["err"] = JBool(TRUE)
          /\ HasPrefix(MsgOf(stdout), <<"Failure querying Cloudant: ">>)
    /\ TokenObtained => Range(iam_token) \cap OutputAtoms(stdout) = {}
    /\ IsOk(iam_resp) => (TextAtoms(iam_resp.val.body) \cap Tokens) \cap OutputAtoms(stdout) = {}

\* a run that got a token and has ended on a failed database request
C6_Witness ==
    /\ Terminated
    /\ TokenObtained
    /\ iam_token \in {<<t>> : t \in Tokens}
    /\ DbRequestFailed
    /\ Len(stdout) = 2

(* C7 -- one message per failure mode                                      *)

\* C7: the message of a database response that cannot be decoded differs
\* from the message of an identity response that cannot be decoded: of two
\* invocations, one ended at each of the two, the messages differ.
C7_DecodeFailuresTellStage ==
    (/\ prev # Unset
     /\ Terminated
     /\ IsOk(prev.iam_resp) /\ prev.cdb_resp = Unset
     /\ DbDecodeFailed) =>
        MsgOf(stdout) # MsgOf(prev.stdout)

(* C8 -- the message of a failed remote call does not tell the cause       *)

SameCallFailedTwice ==
    /\ prev # Unset
    /\ Terminated
    /\ args = prev.args
    /\ \/ IsErr(iam_resp) /\ IsErr(prev.iam_resp)
       \/ /\ IsErr(cdb_resp) /\ IsErr(prev.cdb_resp)
          /\ iam_resp = prev.iam_resp

\* C8: two invocations that differ only in why the same remote call failed
\* write identical envelopes.
C8_FailureCauseNotTold ==
    SameCallFailedTwice => stdout[Len(stdout)] = prev.stdout[Len(prev.stdout)]

\* C8 as amended: that holds of the identity call, whose message is the
\* fixed "Failure requesting IAM token"; the message of a failed database
\* call is "Failure querying Cloudant: " followed by the error's own text,
\* and an HTTP status and a transport failure give different envelopes.
C8_OnlyIdentityFailureCauseNotTold ==
    /\ (Terminated /\ IsErr(iam_resp)) =>
          MsgOf(stdout) = <<"Failure requesting IAM token">>
    /\ (SameCallFailedTwice /\ IsErr(iam_resp)) =>
          stdout[Len(stdout)] = prev.stdout[Len(prev.stdout)]
    /\ (Terminated /\ IsErr(cdb_resp)) =>
          /\ HasPrefix(MsgOf(stdout), <<"Failure querying Cloudant: ">>)
          /\ Len(MsgOf(stdout)) > 1
    /\ (SameCallFailedTwice /\ IsErr(cdb_resp) /\ cdb_resp.err.kind # prev.cdb_resp.err.kind) =>
          stdout[Len(stdout)] # prev.stdout[Len(prev.stdout)]

\* two runs on the same input whose identity calls failed for different reasons
C8_Witness ==
    /\ SameCallFailedTwice
    /\ IsErr(iam_resp)
    /\ iam_resp.err.kind # prev.iam_resp.err.kind

(* C9 -- the listing is handed on                                          *)

ListingSucceeded == handler = "fetch_all" /\ pc = "exit_success"
ListingResponse == cdb_resp.val.body.js

\* C9: when a listing succeeds, the body has err = false, the fixed
\* completion message, and as data the response of the database verbatim.
C9_ListingVerbatim ==
    ListingSucceeded =>
        /\ BodyOf(stdout)["err"] = JBool(FALSE)
        /\ BodyOf(stdout)["msg"] = JStr(<<"fetch_all execution complete!">>)
        /\ BodyOf(stdout)["data"] = ListingResponse

\* what of a listing response the typed record keeps: offset, total_rows,
\* and of each row id, key and value.rev
KeptOfRow(r) ==
    JObj(("id" :> r.o["id"]) @@ ("key" :> r.o["key"])
         @@ ("value" :> JObj("rev" :> r.o["value"].o["rev"])))
KeptOfListing(j) ==
    JObj(("offset" :> j.o["offset"])
         @@ ("rows" :> JArr([k \in DOMAIN j.o["rows"].a |-> KeptOfRow(j.o["rows"].a[k])]))
         @@ ("total_rows" :> j.o["total_rows"]))

\* C9 as amended: data is the response of the database cut down to the
\* fields of the typed record (offset, total_rows, and id, key, value.rev
\* of each row); whatever else the response holds is dropped, and a
\* response that holds nothing else is handed on verbatim.
C9_ListingKeepsTypedFields ==
    ListingSucceeded =>
        /\ BodyOf(stdout)["err"] = JBool(FALSE)
        /\ BodyOf(stdout)["msg"] = JStr(<<"fetch_all execution complete!">>)
        /\ BodyOf(stdout)["data"] = KeptOfListing(ListingResponse)
        /\ (KeptOfListing(ListingResponse) = ListingResponse) =>
              BodyOf(stdout)["data"] = ListingResponse

\* a listing of rows that carry a doc field has succeeded
C9_Witness ==
    /\ ListingSucceeded
    /\ ListingResponse.o["rows"].a # <<>>
    /\ "doc" \in DOMAIN ListingResponse.o["rows"].a[1].o

(* C10 -- the document is sent on as it came                               *)

\* C10: the document sent as the body of the database POST has the field
\* values of the document carried in the input: task and done unchanged,
\* a present _id unchanged and an absent _id absent.
C10_DocumentSentUnchanged ==
    (handler = "insert" /\ cdbReqs # <<>>) =>
        LET sent == cdbReqs[1].body.js.o
            orig == bytes.js.o
        IN  /\ sent["task"] = orig["task"]
            /\ sent["done"] = orig["done"]
            /\ "_id" \in DOMAIN sent <=> "_id" \in DOMAIN orig
            /\ "_id" \in DOMAIN orig => sent["_id"] = orig["_id"]

\* what the code keeps of C10: task and done unchanged, a present _id
\* unchanged; an absent _id is sent as null
C10_DocumentSentWithNullId ==
    (handler = "insert" /\ cdbReqs # <<>>) =>
        LET sent == cdbReqs[1].body.js.o
            orig == bytes.js.o
        IN  /\ sent["task"] = orig["task"]
            /\ sent["done"] = orig["done"]
            /\ sent["_id"] = IF "_id" \in DOMAIN orig THEN orig["_id"] ELSE JNull

(* C11 -- the API key is not written                                      *)

\* the API key the input carries, if it carries one
InputApiKey ==
    IF /\ Len(args) >= 2
       /\ IsJson(args[2])
       /\ args[2].js.t = "object"
       /\ "iam_apikey" \in DOMAIN args[2].js.o
       /\ args[2].js.o["iam_apikey"].t = "string"
    THEN Range(args[2].js.o["iam_apikey"].s)
    ELSE {}

\* C11: on every path, nothing written to the output holds the value of the
\* API key of the input.
C11_ApiKeyNotWritten == InputApiKey \cap OutputAtoms(stdout) = {}

\* C11, as a comparison of two invocations: when they differ in the API key
\* alone and the endpoints answer the same, their outputs are identical.
C11_OutputSameForAnyApiKey ==
    (/\ prev # Unset
     /\ Terminated
     /\ iam_resp = prev.iam_resp
     /\ cdb_resp = prev.cdb_resp) =>
        stdout = prev.stdout

(* C12 -- the listing handler is deterministic                             *)

SameRunTwice ==
    /\ prev # Unset
    /\ Terminated
    /\ args = prev.args
    /\ iam_resp = prev.iam_resp
    /\ cdb_resp = prev.cdb_resp

StageRank(at) ==
    CASE at = "print_args" -> 1
      [] at = "parse_input" -> 2
      [] at = "decode_body" -> 3
      [] at = "deserialize_body" -> 4
      [] at = "request_token" -> 5
      [] at = "deserialize_iam" -> 6
      [] at = "query_cloudant" -> 7
      [] at = "deserialize_cloudant" -> 8
      [] at = "build_output" -> 9
      [] OTHER -> 10

\* C13: in an invocation at most one request goes to the identity endpoint
\* and at most one to the database endpoint; every step of main moves on to
\* a later stage, so that no stage is entered twice; and once a stage has
\* failed, no request is sent any more.
C13_NoRetry ==
    /\ [](Len(iamReqs) <= 1 /\ Len(cdbReqs) <= 1)
    /\ [][/\ StageRank(pc') > StageRank(pc)
          /\ SomeStageFailed => (iamReqs' = iamReqs /\ cdbReqs' = cdbReqs)]_vars

\* a run that sent both requests and then failed to decode the database's answer
C13_Witness ==
    /\ Terminated
    /\ DbDecodeFailed
    /\ Len(iamReqs) = 1
    /\ Len(cdbReqs) = 1

(* C14 -- decode, token exchange, database call, emit: in this order      *)

\* the atoms of what a request carries
HeaderAtoms(r) == UNION {Range(h[2]) : h \in r.headers}
IamRequestAtoms(r) == Range(r.url) \cup HeaderAtoms(r) \cup UNION {Range(f[2]) : f \in r.form}
CdbRequestAtoms(r) == Range(r.url) \cup HeaderAtoms(r) \cup TextAtoms(r.body)

\* the access token of the identity endpoint's answer
AnsweredToken == iam_resp.val.body.js.o["access_token"].s

\* C14: a request has gone to the database endpoint only after the input
\* (and, in insert, the document) was decoded, the one identity request
\* succeeded and its response was decoded; its Authorization header is
\* "Bearer " and the access token of that response; that token is in this
\* one request and in no other; and the envelope is written last.
C14_StagesInOrder ==
    /\ cdbReqs # <<>> =>
          /\ i # Unset
          /\ handler = "insert" => document # Unset
          /\ Len(iamReqs) = 1
          /\ IsOk(iam_resp)
          /\ ~TokenDecodeFailed
          /\ <<"Authorization", <<"Bearer ">> \o AnsweredToken>> \in cdbReqs[1].headers
          /\ {h \in cdbReqs[1].headers : h[1] = "Authorization"}
                = {<<"Authorization", <<"Bearer ">> \o AnsweredToken>>}
          /\ {k \in DOMAIN cdbReqs : Range(AnsweredToken) \subseteq CdbRequestAtoms(cdbReqs[k])} = {1}
          /\ \A k \in DOMAIN iamReqs : Range(AnsweredToken) \cap IamRequestAtoms(iamReqs[k]) = {}
    /\ iamReqs # <<>> => (i # Unset /\ (handler = "insert" => document # Unset))
    /\ EnvelopeLines(stdout) # {} => Terminated

\* the database has been asked with the second of the tokens
C14_Witness ==
    /\ Len(cdbReqs) = 1
    /\ IsOk(iam_resp)
    /\ ~TokenDecodeFailed
    /\ AnsweredToken = <<"TOKEN_B">>
    /\ pc = "deserialize_cloudant"

(* C15 -- insert decodes the nested body before any remote call          *)

\* a text that is no document: no JSON, no object, task or done absent or
\* of another type, or an _id that is neither a string nor null
NotADocument(text) ==
    \/ ~IsJson(text)
    \/ text.js.t # "object"
    \/ "task" \notin DOMAIN text.js.o
    \/ "done" \notin DOMAIN text.js.o
    \/ text.js.o["task"].t # "string"
    \/ text.js.o["done"].t # "boolean"
    \/ ("_id" \in DOMAIN text.js.o /\ text.js.o["_id"].t \notin {"string", "null"})

ReportedWith(prefix) ==
    /\ HasEnvelope(stdout)
    /\ BodyOf(stdout)["err"] = JBool(TRUE)
    /\ HasPrefix(MsgOf(stdout), prefix)
    /\ \A other \in {<<"Failure parsing raw HTTP request: ">>,
                     <<"Failure decoding base64 body: ">>,
                     <<"Failure deserializing decoded bytes: ">>} \ {prefix} :
          ~HasPrefix(MsgOf(stdout), other)
    /\ iamReqs = <<>>
    /\ cdbReqs = <<>>

\* C15: in insert, a body that is no base64 ends the run with err = true
\* and the base64 message, a body whose bytes are no document with err =
\* true and the body-deserialization message; in both cases no request was
\* sent, and each of the two messages is told apart from the other and
\* from the message of the top-level decode; no request is sent before the
\* document is decoded.
C15_BodyDecodedFirst ==
    /\ (handler = "insert" /\ Terminated /\ i # Unset) =>
          LET decoded == Base64Decode(i["__ow_body"]) IN
          /\ ~decoded.ok => ReportedWith(<<"Failure decoding base64 body: ">>)
          /\ (decoded.ok /\ NotADocument(decoded.val)) =>
                ReportedWith(<<"Failure deserializing decoded bytes: ">>)
    /\ (handler = "insert" /\ Terminated /\ InputMalformed) =>
          ReportedWith(<<"Failure parsing raw HTTP request: ">>)
    /\ (handler = "insert" /\ iamReqs # <<>>) => document # Unset

\* an insert has ended on bytes that are JSON but no document
C15_Witness ==
    /\ handler = "insert"
    /\ pc = "exit_body"
    /\ IsJson(bytes)
    /\ NotADocument(bytes)

(* C16 -- the raw body is an input of insert alone                        *)

\* the input is a JSON object that has every field but the raw body, each
\* of its type, and the raw body either not at all or as a string
InputGoodButForBody ==
    /\ Len(args) >= 2
    /\ IsJson(args[2])
    /\ args[2].js.t = "object"
    /\ \A f \in RawInputFields \ {"__ow_body"} : f \in DOMAIN args[2].js.o
    /\ \A f \in (StringFields \cap DOMAIN args[2].js.o) : args[2].js.o[f].t = "string"

\* C16: the listing handler decodes every such input, with or without the
\* raw body, and goes on to the token exchange.
C16_ListingNeedsNoBody ==
    (handler = "fetch_all" /\ InputGoodButForBody /\ StageRank(pc) > 2) =>
        /\ i # Unset
        /\ iamReqs # <<>> \/ pc = "request_token"

\* what the code keeps of C16: it does so when the raw body is there
C16_ListingDecodesWithBody ==
    (/\ handler = "fetch_all"
     /\ InputGoodButForBody
     /\ "__ow_body" \in DOMAIN args[2].js.o
     /\ StageRank(pc) > 2) =>
        /\ i # Unset
        /\ iamReqs # <<>> \/ pc = "request_token"

(* C17 -- the two shapes of the body                                      *)

\* C17: every body written is either {err: true, msg}, without a result
\* key, or {err: false, msg, key} with key = data in fetch_all and
\* inserted_record in insert; none has both keys.
C17_BodyShapes ==
    \A k \in EnvelopeLines(stdout) :
        LET body == stdout[k].js.o["body"].o IN
        /\ body["msg"].t = "string"
        /\ \/ body["err"] = JBool(TRUE) /\ DOMAIN body = {"err", "msg"}
           \/ /\ body["err"] = JBool(FALSE)
              /\ DOMAIN body = {"err", "msg"} \cup
                    (IF handler = "fetch_all" THEN {"data"} ELSE {"inserted_record"})

\* an insert has succeeded
C17_Witness ==
    /\ handler = "insert"
    /\ pc = "exit_success"
    /\ "inserted_record" \in DOMAIN BodyOf(stdout)

(* C18 -- every invocation ends by emitting                                *)

\* main goes on as long as it has a step to take: every call it makes
\* comes back with an answer or with a failure
LiveSpec == Spec /\ WF_vars(Next)

\* C18: wherever main is, it either has a step to take or it has ended
\* with an envelope written (Emitting(success) or Emitting(error)).
C18_EndsEmitting == (Terminated /\ HasEnvelope(stdout)) \/ ENABLED Next

\* what the code keeps of C18: every invocation ends
C18_EventuallyEnds == <>Terminated

(* C19 -- each credential goes to its endpoint alone                      *)

\* the URL of the database call, from the base URL and the database name
\* of the input
InputDbUrl ==
    args[2].js.o["db_url"].s \o <<"/">> \o args[2].js.o["database"].s
    \o (IF handler = "fetch_all" THEN <<"/_all_docs">> ELSE <<>>)

\* C19: the API key goes to the identity endpoint, as the apikey of the
\* form, and is in no request to the database endpoint; the bearer token
\* goes to the database endpoint, at the URL built from the input's base
\* URL and database name, and no token is in a request to the identity
\* endpoint.
C19_CredentialsToTheirEndpoint ==
    /\ \A k \in DOMAIN iamReqs :
          /\ iamReqs[k].url = <<"https://iam.cloud.ibm.com/identity/token">>
          /\ <<"apikey", args[2].js.o["iam_apikey"].s>> \in iamReqs[k].form
          /\ Tokens \cap IamRequestAtoms(iamReqs[k]) = {}
    /\ \A k \in DOMAIN cdbReqs :
          /\ cdbReqs[k].url = InputDbUrl
          /\ Range(AnsweredToken) \subseteq HeaderAtoms(cdbReqs[k])
          /\ InputApiKey \cap CdbRequestAtoms(cdbReqs[k]) = {}

\* an insert has sent its document to the database
C19_Witness ==
    /\ handler = "insert"
    /\ Len(iamReqs) = 1
    /\ Len(cdbReqs) = 1
    /\ InputApiKey = {"KEY_B"}

====
